---- MODULE Spec2Model ----
(***************************************************************************)
(* TerrainCreator: height field, tile addressing, brush engine, marker and *)
(* paint mask, modelled from the JavaScript sources.                       *)
(*                                                                         *)
(* Numbers.  Local x/z coordinates are integers in world units.  Heights   *)
(* are integers in hundredths of a world unit, so the step 0.2 is         *)
(* 20 and MIN_H/MAX_H are -20000/30000.  Math.cos(t*PI/2) is evaluated by  *)
(* the rational approximation 4(1-t^2)/(4+t^2), exact at t = 0 and t = 1;  *)
(* Math.hypot is compared through squares where the code only compares     *)
(* distances, and through ISqrt (tenths) where the code uses its value.    *)
(***************************************************************************)
EXTENDS Integers, Sequences, FiniteSets, TLC

\* ---------------------------------------------------------------- constants
TILE_SIZE == 32
SUBDIVISIONS == 4
MIN_H == -20000
MAX_H == 30000
MARKER_HOVER == 200
GRID_LIFT == 60

\* ------------------------------------------------------------------- bounds
InitTiles == 2
MaxTiles == 3
MaxRadius == 2
MaxStrokes == 2
MaxOps == 4
SmallH == 500

\* ------------------------------------------------------------ input domains
Modes == {"raise", "lower", "smooth"}
Radii == 0..MaxRadius
StepSmall == 20
StepHuge == 60000
Steps == {0, StepSmall, -StepSmall, StepHuge}
\* the source holds several revisions of each file; a composition is
\*   mono     main.js (monolith, one segment per tile)
\*   tiles    sculpt.js tile-corner brush + terrain.js (one segment per tile)
\*   full     sculpt.js full scan + terrain.js (subdivided, no overlay)
\*   bounded  sculpt.js bounded scan + terrain.js with the sampled main grid
\*   vendored sculpt.js bounded scan + terrain.js using vendor/THREE.Terrain
Revs == {"mono", "tiles", "full", "bounded", "vendored"}

\* ------------------------------------------------------------------ helpers
Min2(a, b) == IF a < b THEN a ELSE b
Max2(a, b) == IF a > b THEN a ELSE b

\* const _clamp = (x, a, b) => Math.min(b, Math.max(a, x))
Clamp(x, a, b) == Min2(b, Max2(a, x))

\* Math.floor(a / b) for b > 0
FloorDiv(a, b) == a \div b

\* Math.ceil(a / b) for b > 0
CeilDiv(a, b) == -((-a) \div b)

\* Math.round(a / b) for b > 0: JavaScript rounds halves toward +Infinity
RoundDiv(a, b) == (2 * a + b) \div (2 * b)

\* rounding of an exact quotient to the stored precision, nearest, b > 0
NearDiv(a, b) == IF a >= 0 THEN (2 * a + b) \div (2 * b) ELSE -((2 * (-a) + b) \div (2 * b))

\* floor(sqrt(n)) for 0 <= n
ISqrt(n) == CHOOSE k \in 0..(n + 1) : k * k <= n /\ (k + 1) * (k + 1) > n

RECURSIVE SumOver(_, _)
SumOver(f, S) == IF S = {} THEN 0
                 ELSE LET e == CHOOSE x \in S : TRUE IN f[e] + SumOver(f, S \ {e})

\* number of stored heights of a geometry with the given segment counts
VertexCount(ws, hs) == (ws + 1) * (hs + 1)

\* PlaneGeometry vertex positions (local x / z of column c, row r)
VertX(c, ws, W) == -(W \div 2) + (c * W) \div ws
VertZ(r, hs, H) == -(H \div 2) + (r * H) \div hs

\* ------------------------------------------------------------- TileIndexer
PlaneW(tx) == tx * TILE_SIZE
PlaneH(ty) == ty * TILE_SIZE

\* sculpt.js worldToTile / localToTile, texturepaint.js _localToTile:
\* floor(u * TILES_X) clamped into [0, TILES_X - 1]
TileClampWide(t, n) == Clamp(t, 0, n)
TileClamp(t, n) == Clamp(t, 0, n - 1)
WorldToTile(x, z, tx, ty) ==
  LET W == PlaneW(tx)
      H == PlaneH(ty)
      i == FloorDiv((x + W \div 2) * tx, W)
      j == FloorDiv((z + H \div 2) * ty, H)
  IN  [i |-> TileClamp(i, tx), j |-> TileClamp(j, ty)]

\* tileCenterLocal: x = -W/2 + (i + 0.5) * TILE_SIZE
TileCenterX(i, tx) == -(PlaneW(tx) \div 2) + i * TILE_SIZE + TILE_SIZE \div 2
TileCenterZ(j, ty) == -(PlaneH(ty) \div 2) + j * TILE_SIZE + TILE_SIZE \div 2

\* tileCornerIndices(i, j) on a geometry with vpr vertices per row
TileCornerIndices(i, j, vpr) ==
  LET tl == j * vpr + i
      bl == (j + 1) * vpr + i
  IN  {tl, tl + 1, bl, bl + 1}

\* ------------------------------------------------------------- BrushEngine
\* falloff * step with falloff = cos((d / R) * PI / 2), from d^2 and R^2
RimOnlyDelta(d2, r2, step) == IF d2 = 0 THEN 0 ELSE step
CosFalloffDelta(d2, r2, step) == NearDiv(4 * (r2 - d2) * step, 4 * r2 + d2)

\* --- bounded scan (distance measured from the rounded hit vertex) ---------
BoundedHitVert(p, segs, size) == RoundDiv((p + size \div 2) * segs, size)

BoxAround(ws, hs, hvx, hvz, cell, rv, R) ==
  [startX |-> Max2(0, hvx - rv), endX |-> Min2(ws, hvx + rv),
   startZ |-> Max2(0, hvz - rv), endZ |-> Min2(hs, hvz + rv),
   hvx |-> hvx, hvz |-> hvz, cell |-> cell, R |-> R]

BoundedBox(ws, hs, W, H, hx, hz, radius) ==
  BoxAround(ws, hs, BoundedHitVert(hx, ws, W), BoundedHitVert(hz, hs, H), W \div ws,
            CeilDiv(radius * TILE_SIZE, W \div ws), radius * TILE_SIZE)

\* every index the bounded scan computes (idx = z * vpr + x)
BoxIndices(b, ws) ==
  {z * (ws + 1) + x : x \in b.startX..b.endX, z \in b.startZ..b.endZ}

BoundedScanned(ws, hs, W, H, hx, hz, radius) ==
  BoxIndices(BoundedBox(ws, hs, W, H, hx, hz, radius), ws)

BoundedD2(b, idx, ws) ==
  LET x  == idx % (ws + 1)
      z  == idx \div (ws + 1)
      dx == (x - b.hvx) * b.cell
      dz == (z - b.hvz) * b.cell
  IN  dx * dx + dz * dz

BoundedInRadius(b, idx, ws) == b.R > 0 /\ BoundedD2(b, idx, ws) < b.R * b.R

PicksIn(b, ws) == {idx \in BoxIndices(b, ws) : BoundedInRadius(b, idx, ws)}

BoundedPicks(ws, hs, W, H, hx, hz, radius) ==
  PicksIn(BoundedBox(ws, hs, W, H, hx, hz, radius), ws)

StoreUnclamped(y) == y
StoreClamped(y) == Min2(MAX_H, Max2(MIN_H, y))

\* smooth: vertices[yi] += (avg - yv) * 0.1 with avg = sum / n, no clamp
BoundedSmooth(h, picks, n, sum) ==
  [idx \in DOMAIN h |->
     IF idx \in picks THEN h[idx] + NearDiv(sum - n * h[idx], 10 * n) ELSE h[idx]]

\* raise / lower: vertices[yi] = min(MAX_H, max(MIN_H, y + falloff * step * sign))
BoundedRaise(h, ws, b, picks, sign, step) ==
  [idx \in DOMAIN h |->
     IF idx \in picks
     THEN StoreClamped(h[idx] + CosFalloffDelta(BoundedD2(b, idx, ws), b.R * b.R, step) * sign)
     ELSE h[idx]]

SculptBoundedOn(h, ws, b, picks, mode, step) ==
  IF mode = "smooth"
  THEN IF picks = {} THEN h
       ELSE BoundedSmooth(h, picks, Cardinality(picks), SumOver(h, picks))
  ELSE BoundedRaise(h, ws, b, picks, IF mode = "lower" THEN -1 ELSE 1, step)

SculptBounded(h, ws, hs, W, H, hx, hz, mode, radius, step) ==
  SculptBoundedOn(h, ws, BoundedBox(ws, hs, W, H, hx, hz, radius),
                  BoundedPicks(ws, hs, W, H, hx, hz, radius), mode, step)

\* the vertex nearest the hit point: Math.round(((p + size / 2) / size) * segs)
\* along each axis, as an index into the height array
CenterVertex(r, tx, ty, hx, hz) ==
  LET segs == IF r \in {"mono", "tiles"} THEN 1 ELSE SUBDIVISIONS
  IN  BoundedHitVert(hz, ty * segs, PlaneH(ty)) * (tx * segs + 1)
      + BoundedHitVert(hx, tx * segs, PlaneW(tx))

\* --- full scan (distance measured from the hit point itself) --------------
FullD2(idx, ws, hs, W, H, hx, hz) ==
  LET dx == VertX(idx % (ws + 1), ws, W) - hx
      dz == VertZ(idx \div (ws + 1), hs, H) - hz
  IN  dx * dx + dz * dz

FullInRadius(idx, ws, hs, W, H, hx, hz, R) ==
  R > 0 /\ FullD2(idx, ws, hs, W, H, hx, hz) < R * R

\* one vertex inside the brush: delta = falloff * step, then the clamp
FullVertex(y, d2, R, mode, step) ==
  IF mode = "smooth"
  THEN Clamp(y + NearDiv(CosFalloffDelta(d2, R * R, step), 10), MIN_H, MAX_H)
  ELSE Clamp(y + CosFalloffDelta(d2, R * R, step) * (IF mode = "lower" THEN -1 ELSE 1),
             MIN_H, MAX_H)

SculptFull(h, ws, hs, W, H, hx, hz, mode, radius, step) ==
  [idx \in DOMAIN h |->
     IF FullInRadius(idx, ws, hs, W, H, hx, hz, radius * TILE_SIZE)
     THEN FullVertex(h[idx], FullD2(idx, ws, hs, W, H, hx, hz), radius * TILE_SIZE, mode, step)
     ELSE h[idx]]

\* --- tile-corner brush (one geometry segment per tile) --------------------
\* delta = dir * step * fall, fall = rTiles === 0 ? 1 : 1 - hypot(di, dj) / rTiles
TileFallDelta(di, dj, rTiles, dir, step) ==
  IF rTiles = 0 THEN dir * step
  ELSE NearDiv(dir * step * (10 * rTiles - ISqrt(100 * (di * di + dj * dj))), 10 * rTiles)

TilesTouched(ci, cj, rTiles, tx, ty) ==
  {t \in ((ci - rTiles)..(ci + rTiles)) \X ((cj - rTiles)..(cj + rTiles)) :
     /\ ~(t[1] < 0 \/ t[2] < 0 \/ t[1] >= tx \/ t[2] >= ty)
     /\ ~((t[1] - ci) * (t[1] - ci) + (t[2] - cj) * (t[2] - cj) > rTiles * rTiles)}

\* the accumulated map entry of vertex vi: the deltas of the touched tiles it is a corner of
CornerDelta(vi, touched, vpr, ci, cj, dir, rTiles, step) ==
  SumOver([t \in touched |->
             IF vi \in TileCornerIndices(t[1], t[2], vpr)
             THEN TileFallDelta(t[1] - ci, t[2] - cj, rTiles, dir, step)
             ELSE 0], touched)

ApplyDeltaOn(h, touched, keys, vpr, ci, cj, dir, rTiles, step) ==
  [vi \in DOMAIN h |->
     IF vi \in keys
     THEN Clamp(h[vi] + CornerDelta(vi, touched, vpr, ci, cj, dir, rTiles, step), MIN_H, MAX_H)
     ELSE h[vi]]

TouchedCorners(touched, vpr) == UNION {TileCornerIndices(t[1], t[2], vpr) : t \in touched}

ApplyTileDelta(h, tx, ty, ci, cj, dir, rTiles, step) ==
  ApplyDeltaOn(h, TilesTouched(ci, cj, rTiles, tx, ty),
               TouchedCorners(TilesTouched(ci, cj, rTiles, tx, ty), tx + 1),
               tx + 1, ci, cj, dir, rTiles, step)

SmoothSet(ci, cj, rTiles, tx, ty) ==
  LET vpr == tx + 1
      i0  == Max2(0, ci - rTiles)
      j0  == Max2(0, cj - rTiles)
      i1  == Min2(tx, ci + rTiles + 1)
      j1  == Min2(ty, cj + rTiles + 1)
  IN  {j * vpr + i : i \in i0..i1, j \in j0..j1}

\* arr[yi] += (avg - arr[yi]) * 0.15 with avg = cnt ? sum / cnt : 0
SmoothOn(h, set, cnt, sum) ==
  IF cnt = 0 THEN h
  ELSE [vi \in DOMAIN h |->
          IF vi \in set THEN h[vi] + NearDiv(15 * (sum - cnt * h[vi]), 100 * cnt)
          ELSE h[vi]]

SmoothTiles(h, tx, ty, ci, cj, rTiles) ==
  SmoothOn(h, SmoothSet(ci, cj, rTiles, tx, ty),
           Cardinality(SmoothSet(ci, cj, rTiles, tx, ty)),
           SumOver(h, SmoothSet(ci, cj, rTiles, tx, ty)))

SculptTilesAt(h, tx, ty, t, mode, radius, step) ==
  IF mode = "smooth" THEN SmoothTiles(h, tx, ty, t.i, t.j, radius)
  ELSE ApplyTileDelta(h, tx, ty, t.i, t.j, IF mode = "lower" THEN -1 ELSE 1, radius, step)

SculptTiles(h, tx, ty, hx, hz, mode, radius, step) ==
  SculptTilesAt(h, tx, ty, WorldToTile(hx, hz, tx, ty), mode, radius, step)

\* --- what smooth works on ------------------------------------------------
\* the vertices a smooth stroke takes to lie inside the brush
SmoothArea(r, h, tx, ty, hx, hz, radius) ==
  CASE r \in {"mono", "tiles"} ->
         SmoothSet(WorldToTile(hx, hz, tx, ty).i, WorldToTile(hx, hz, tx, ty).j, radius, tx, ty)
    [] r = "full" ->
         {idx \in DOMAIN h :
            FullInRadius(idx, tx * SUBDIVISIONS, ty * SUBDIVISIONS, PlaneW(tx), PlaneH(ty),
                         hx, hz, radius * TILE_SIZE)}
    [] OTHER ->
         BoundedPicks(tx * SUBDIVISIONS, ty * SUBDIVISIONS, PlaneW(tx), PlaneH(ty),
                      hx, hz, radius)

\* n * n * variance of h over the vertex set S, n = |S|
VarianceN2(h, S) ==
  Cardinality(S) * SumOver([idx \in S |-> h[idx] * h[idx]], S) - SumOver(h, S) * SumOver(h, S)

\* ------------------------------------------------------------ HeightField
\* bilinear blend of four stored heights with weights fxn / dx and fzn / dz
BilinearSwapped(y00, y10, y01, y11, fxn, dx, fzn, dz) ==
  NearDiv((y00 * fxn + y10 * (dx - fxn)) * fzn
          + (y01 * fxn + y11 * (dx - fxn)) * (dz - fzn), dx * dz)
Bilinear(y00, y10, y01, y11, fxn, dx, fzn, dz) ==
  NearDiv((y00 * (dx - fxn) + y10 * fxn) * (dz - fzn)
          + (y01 * (dx - fxn) + y11 * fxn) * fzn, dx * dz)

\* the indices sampleHeightLocal reads (terrain.js: x1 = clamp(ix + 1, 0, segs))
Cells(x0, x1, z0, z1, vpr, fxn, fzn) ==
  [i00 |-> z0 * vpr + x0, i10 |-> z0 * vpr + x1,
   i01 |-> z1 * vpr + x0, i11 |-> z1 * vpr + x1, fxn |-> fxn, fzn |-> fzn]

SampleCellsAt(ws, hs, W, H, gxn, gzn, ix, iz) ==
  Cells(Clamp(ix, 0, ws), Clamp(ix + 1, 0, ws), Clamp(iz, 0, hs), Clamp(iz + 1, 0, hs),
        ws + 1, Clamp(gxn - ix * W, 0, W), Clamp(gzn - iz * H, 0, H))

SampleCells(ws, hs, W, H, x, z) ==
  SampleCellsAt(ws, hs, W, H, (x + W \div 2) * ws, (z + H \div 2) * hs,
                FloorDiv((x + W \div 2) * ws, W), FloorDiv((z + H \div 2) * hs, H))

BlendCells(h, c, dx, dz) ==
  Bilinear(h[c.i00], h[c.i10], h[c.i01], h[c.i11], c.fxn, dx, c.fzn, dz)

SampleHeightLocal(h, ws, hs, W, H, x, z) ==
  BlendCells(h, SampleCells(ws, hs, W, H, x, z), W, H)

\* main.js sampleHeightLocal: the tile is clamped, the fraction is not
MonoCellsAt(tx, ty, W, H, gxn, gyn, ci, cj) ==
  Cells(ci, ci + 1, cj, cj + 1, tx + 1, gxn - ci * W, gyn - cj * H)

MonoSampleCells(tx, ty, x, z) ==
  MonoCellsAt(tx, ty, PlaneW(tx), PlaneH(ty),
              (x + PlaneW(tx) \div 2) * tx, (z + PlaneH(ty) \div 2) * ty,
              Clamp(FloorDiv((x + PlaneW(tx) \div 2) * tx, PlaneW(tx)), 0, tx - 1),
              Clamp(FloorDiv((z + PlaneH(ty) \div 2) * ty, PlaneH(ty)), 0, ty - 1))

MonoSampleHeightLocal(h, tx, ty, x, z) ==
  BlendCells(h, MonoSampleCells(tx, ty, x, z), PlaneW(tx), PlaneH(ty))

\* ------------------------------------------------------------------ marker
\* character.js (config variant): x1 = min(segs, x0 + 1)
MarkerCellsAt(ws, hs, W, H, gxn, gzn, ix, iz) ==
  Cells(Min2(ws, Max2(0, ix)), Min2(ws, Min2(ws, Max2(0, ix)) + 1),
        Min2(hs, Max2(0, iz)), Min2(hs, Min2(hs, Max2(0, iz)) + 1),
        ws + 1, Min2(W, Max2(0, gxn - ix * W)), Min2(H, Max2(0, gzn - iz * H)))

MarkerSampleCells(ws, hs, W, H, x, z) ==
  MarkerCellsAt(ws, hs, W, H, (x + W \div 2) * ws, (z + H \div 2) * hs,
                FloorDiv((x + W \div 2) * ws, W), FloorDiv((z + H \div 2) * hs, H))

MarkerSampleHeightLocal(h, ws, hs, W, H, x, z) ==
  BlendCells(h, MarkerSampleCells(ws, hs, W, H, x, z), W, H)

\* character.js (variant without config): average of the four tile corners
SampleTileHeight(h, i, j, ws) ==
  NearDiv(SumOver(h, TileCornerIndices(i, j, ws + 1)), 4)

\* ---------------------------------------------------------- random / noise
JitterPatterns == {"up", "down", "alt"}

\* (Math.random() - 0.5) * 2.5 lies in [-1.25, 1.25)
JitterAmp == 125
\* (Math.random() * 2 - 1) * TILE_SIZE * 0.25
VendoredJitterAmp == (TILE_SIZE * 100) \div 4

JitterDelta(p, idx, amp) ==
  CASE p = "up"   -> amp - 1
    [] p = "down" -> -amp
    [] OTHER      -> IF idx % 2 = 0 THEN amp - 1 ELSE -amp

TemplateNames == {"Flat", "Perlin", "Worley"}
TEMPLATE_MIN == -8000
TEMPLATE_MAX == 12000

\* noise values in hundredths.  _perlin2 / _fbm range over [-1, 1];
\* _worley2 returns 1 - clamp(2 * minD, 0, 1) * 2 - 1, i.e. values in [-2, 0]
\* (on the 8-segment grid its lowest value is -1.52, at ix = 1, iy = 2).
WorleyLow == -152
NoiseValues(name) ==
  CASE name = "Flat"   -> {-100}
    [] name = "Worley" -> {WorleyLow, 0}
    [] OTHER           -> {-100, 100}

NoiseAt(name, p, idx) ==
  LET vals == NoiseValues(name)
      lo   == CHOOSE v \in vals : \A w \in vals : v <= w
      hi   == CHOOSE v \in vals : \A w \in vals : v >= w
  IN  CASE p = "up"   -> hi
        [] p = "down" -> lo
        [] OTHER      -> IF idx % 2 = 0 THEN hi ELSE lo

\* h = minHeight + ((n + 1) * 0.5) * range
TemplateHeight(n, minH, maxH) == minH + NearDiv((n + 100) * (maxH - minH), 200)

\* ------------------------------------------------------------------- state
VARIABLES
  rev,          \* which composition of revisions runs
  binding,      \* what the painter is bound to, relative to the current terrain
  navPaused,    \* navlock.js paused: the HUD toggle that freezes tap-to-move
  requests,     \* loads issued so far per asset group, MaxRequests = that many or more
  tilesX,       \* appState.config.TILES_X
  tilesY,       \* appState.config.TILES_Y
  heights,      \* Y of every vertex of terrainMesh.geometry, by vertex index
  posDirty,     \* position.needsUpdate set and not yet consumed by a render
  gpuFresh,     \* the vertex buffer the renderer draws equals heights
  normalsOf,    \* the heights the vertex normals were computed from
  overlay,      \* Y of the overlay line vertices (edges helper / main grid)
  ball,         \* marker: [tileI, tileJ, y]
  markers,      \* marker meshes in the scene, appState.ball last: TRUE when the
                \* marker's terrainMesh is the current one
  ui,           \* uiState: [sculptOn, mode, radius, step]
  dragging,     \* initSculpting's closure flag
  allowTapMove, \* main.js flag driven by tc:navlock
  painter,      \* texture painter: [activeKey, maskLen, painted]
  strokes,      \* number of applySculpt calls so far
  ops,          \* number of handlers run so far
  budget,       \* number of handlers a run may take
  last,         \* what the last handler was and did
  prev,         \* heights before the last handler
  tin,          \* input of the last tile query
  tout          \* result of the last tile query

vars == <<rev, requests, navPaused, binding,
          tilesX, tilesY, heights, posDirty, gpuFresh, normalsOf, overlay, ball, markers,
          ui, dragging, allowTapMove, painter, strokes, ops, budget, last, prev,
          tin, tout>>

fieldVars == <<heights, posDirty, gpuFresh, normalsOf, overlay, ball>>

\* ----------------------------------------------------- per-revision facts
SegsPerTile(r) == IF r \in {"mono", "tiles"} THEN 1 ELSE SUBDIVISIONS
WSeg == tilesX * SegsPerTile(rev)
HSeg == tilesY * SegsPerTile(rev)
PW == PlaneW(tilesX)
PH == PlaneH(tilesY)

OverlayKind(r) ==
  CASE r \in {"mono", "tiles"}       -> "edges"
    [] r \in {"bounded", "vendored"} -> "grid"
    [] OTHER                          -> "none"

\* applySculpt's tail: which revisions rebuild the overlay after a stroke
BrushRebuildsOverlay(r) == r \in {"mono", "bounded", "vendored"}

\* attachToTerrain needs appState.terrainMaterial, which only the terrain.js
\* revision with the sampled main grid publishes
HasPainter(r) == r = "bounded"
MarkerHasConfig(r) == r \notin {"mono", "tiles"}
MarkerHover(r) == IF r = "vendored" THEN 0 ELSE MARKER_HOVER

\* createTerrain of the subdivided terrain.js without overlay builds a
\* TextureLoader and calls load() for the four leaves maps; the other
\* revisions load nothing there
CreateTerrainLoads(r) == r = "full"

\* asset groups: the URLs of a group are always requested together, once each
AssetGroups == {"leaves", "paint"}
MaxRequests == 2
NoRequests == [g \in AssetGroups |-> 0]
Issue(q, g) == [q EXCEPT ![g] = Min2(MaxRequests, @ + 1)]
CreateTerrainRequests(r, q) == IF CreateTerrainLoads(r) THEN Issue(q, "leaves") ELSE q
\* initTexturePainter: loadTex(url) for every map of every texture set
InitTexturePainterRequests(r, q) == IF HasPainter(r) THEN Issue(q, "paint") ELSE q

\* ---------------------------------------------------------------- overlay
\* EdgesGeometry copies the vertex positions it is built from
RebuildEdges(h) == h

\* rebuildMainGrid / refreshMainGrid: samples along the tile border lines
BorderVerts(ws, hs) ==
  {idx \in 0..(VertexCount(ws, hs) - 1) :
     (idx % (ws + 1)) % SUBDIVISIONS = 0 \/ (idx \div (ws + 1)) % SUBDIVISIONS = 0}

RebuildMainGrid(h, ws, hs, W, H) ==
  [idx \in BorderVerts(ws, hs) |->
     SampleHeightLocal(h, ws, hs, W, H,
                       VertX(idx % (ws + 1), ws, W), VertZ(idx \div (ws + 1), hs, H))
     + GRID_LIFT]

BuildOverlay(r, h, tx, ty) ==
  CASE OverlayKind(r) = "edges" -> RebuildEdges(h)
    [] OverlayKind(r) = "grid"  ->
         RebuildMainGrid(h, tx * SUBDIVISIONS, ty * SUBDIVISIONS, PlaneW(tx), PlaneH(ty))
    [] OTHER -> [idx \in {} |-> 0]

\* ----------------------------------------------------------------- marker
SnapStale(r, h, tx, ty, i, j) == MarkerHover(r)
SnapToTile(r, h, tx, ty, i, j) ==
  IF MarkerHasConfig(r)
  THEN MarkerSampleHeightLocal(h, tx * SegsPerTile(r), ty * SegsPerTile(r),
                               PlaneW(tx), PlaneH(ty),
                               TileCenterX(i, tx), TileCenterZ(j, ty)) + MarkerHover(r)
  ELSE SampleTileHeight(h, i, j, tx * SegsPerTile(r)) + MarkerHover(r)

\* BallMarker.placeOnTile: clamp to the grid, then snap
PlaceOnTile(r, h, tx, ty, i, j) ==
  LET nx == IF MarkerHasConfig(r) THEN tx ELSE tx * SegsPerTile(r)
      ny == IF MarkerHasConfig(r) THEN ty ELSE ty * SegsPerTile(r)
      ci == Min2(nx - 1, Max2(0, i))
      cj == Min2(ny - 1, Max2(0, j))
  IN  [tileI |-> ci, tileJ |-> cj, y |-> SnapToTile(r, h, tx, ty, ci, cj)]

\* new BallMarker({tileI, tileJ}): the config variants store the indices as
\* given, the variant without config clamps them to the geometry segments
BallMarkerNew(r, h, tx, ty, i, j) ==
  IF MarkerHasConfig(r)
  THEN [tileI |-> i, tileJ |-> j, y |-> SnapToTile(r, h, tx, ty, i, j)]
  ELSE PlaceOnTile(r, h, tx, ty, i, j)

\* BallMarker.dispose on appState.ball: scene.remove(this.mesh)
DisposeNothing(m) == m
DisposeBall(m) == IF m = <<>> THEN m ELSE SubSeq(m, 1, Len(m) - 1)

\* a new terrainMesh replaces the old one: what is left refers to the old mesh
StaleAll(m) == [k \in DOMAIN m |-> FALSE]

\* createTerrain: new BallMarker at floor(TILES / 3)
NewMarker(r, h, tx, ty) == BallMarkerNew(r, h, tx, ty, tx \div 3, ty \div 3)

\* HeightField.sampleHeight as the terrain side computes it
TerrainSample(r, h, tx, ty, x, z) ==
  IF r = "mono" THEN MonoSampleHeightLocal(h, tx, ty, x, z)
  ELSE SampleHeightLocal(h, tx * SegsPerTile(r), ty * SegsPerTile(r),
                         PlaneW(tx), PlaneH(ty), x, z)

\* --------------------------------------------------------- texture painter
\* the four mask channels (mask1..mask4); painted[k] is the set of vertex
\* indices whose entry of channel k is 1.0, every other entry being 0.0
MaskKeys == {"sand", "dryground", "sandstone", "coastsand"}
NoMasks == [k \in MaskKeys |-> {}]
NoPainter == [activeKey |-> "none", maskLen |-> 0, painted |-> NoMasks]

\* _addOrResizeMaskAttributes: one Float32 entry per vertex of the mesh given
AddOrResizeMaskAttributes(p, verts, exists) ==
  IF ~exists \/ p.maskLen # verts
  THEN [p EXCEPT !.maskLen = verts, !.painted = NoMasks]
  ELSE p

\* _paintTileActive: the block of vertex indices of tile (i, j)
PaintBlock(i, j, tx) ==
  LET vpr == tx * SUBDIVISIONS + 1
  IN  {r * vpr + c : c \in (i * SUBDIVISIONS)..((i + 1) * SUBDIVISIONS),
                     r \in (j * SUBDIVISIONS)..((j + 1) * SUBDIVISIONS)}

\* the entries of the block that exist in the mask arrays (a typed array
\* ignores a write past its end)
BlockInMask(p, i, j, tx) == {idx \in PaintBlock(i, j, tx) : idx < p.maskLen}

\* a painter that only sets the active channel and leaves the others alone
PaintTileAdditive(p, i, j, tx) ==
  [p EXCEPT !.painted =
     [k \in MaskKeys |-> IF k = p.activeKey
                         THEN p.painted[k] \cup BlockInMask(p, i, j, tx)
                         ELSE p.painted[k]]]

\* attr.array[idx] = (k === state.activeKey) ? 1.0 : 0.0 for every channel k
PaintTileActive(p, i, j, tx) ==
  [p EXCEPT !.painted =
     [k \in MaskKeys |-> IF k = p.activeKey
                         THEN p.painted[k] \cup BlockInMask(p, i, j, tx)
                         ELSE p.painted[k] \ BlockInMask(p, i, j, tx)]]

\* the painter revisions differ in how _hookMaterial remembers its work:
\* "latch" keeps one state.hooked flag for the painter, "perMaterial" marks
\* the material itself (mat.userData.__texPaintHooked)
PainterRevs == {"latch", "perMaterial"}

\* maskCurrent: state.maskAttr is an attribute of the current geometry;
\* matHooked: the current material has the painter's onBeforeCompile;
\* latch: state.hooked; attached: attachToTerrain ran since the last rebuild
NoBinding(pr) ==
  [painterRev |-> pr, maskCurrent |-> FALSE, matHooked |-> FALSE, latch |-> FALSE,
   attached |-> FALSE]

\* _hookMaterial(mat): "if (!mat || state.hooked) return" in the latch
\* revision, "if (!mat || mat.userData.__texPaintHooked) return" otherwise
HookLatched(b) == IF b.latch THEN b.matHooked ELSE TRUE
HookMaterial(b) == IF b.painterRev = "latch" THEN HookLatched(b) ELSE TRUE

\* attachToTerrain past its early return: the mask attribute is taken from
\* (or put on) the current geometry, then the material is hooked
Attach(b) ==
  [b EXCEPT !.maskCurrent = TRUE, !.matHooked = HookMaterial(b), !.latch = TRUE,
            !.attached = TRUE]

\* createTerrain replaces geometry and material by new ones
NewTerrainBinding(b) ==
  [b EXCEPT !.maskCurrent = FALSE, !.matHooked = FALSE, !.attached = FALSE]

\* ------------------------------------------------------------------- Init
FlatHeights(ws, hs) == [idx \in 0..(VertexCount(ws, hs) - 1) |-> 0]

DefaultUi == [sculptOn |-> FALSE, mode |-> "raise", radius |-> 2, step |-> StepSmall]

NoHit == [on |-> FALSE, x |-> 0, z |-> 0]
Hit(x, z) == [on |-> TRUE, x |-> x, z |-> z]

Done(op, hit, mode, radius, step, applied, oob) ==
  [op |-> op, hit |-> hit, mode |-> mode, radius |-> radius, step |-> step,
   applied |-> applied, oob |-> oob]

NoTile == [i |-> -1, j |-> -1]

InitWith(b, pr) ==
  /\ rev \in Revs
  /\ binding = IF HasPainter(rev) THEN Attach(NoBinding(pr)) ELSE NoBinding(pr)
  /\ requests = CreateTerrainRequests(rev, InitTexturePainterRequests(rev, NoRequests))
  /\ tilesX = InitTiles
  /\ tilesY = InitTiles
  /\ heights = FlatHeights(InitTiles * SegsPerTile(rev), InitTiles * SegsPerTile(rev))
  /\ posDirty = TRUE
  /\ gpuFresh = FALSE
  /\ normalsOf = heights
  /\ overlay = BuildOverlay(rev, heights, InitTiles, InitTiles)
  /\ ball = NewMarker(rev, heights, InitTiles, InitTiles)
  /\ markers = <<TRUE>>
  /\ ui = DefaultUi
  /\ dragging = FALSE
  /\ allowTapMove = TRUE
  /\ navPaused = FALSE
  /\ painter = IF HasPainter(rev)
               THEN AddOrResizeMaskAttributes(NoPainter,
                      VertexCount(InitTiles * SUBDIVISIONS, InitTiles * SUBDIVISIONS), FALSE)
               ELSE NoPainter
  /\ strokes = 0
  /\ ops = 0
  /\ budget = b
  /\ last = Done("init", NoHit, "raise", 0, 0, FALSE, FALSE)
  /\ prev = heights

InitCommon(b) == InitWith(b, "perMaterial")

Init ==
  /\ InitCommon(MaxOps)
  /\ tin = [x |-> 0, z |-> 0, tx |-> InitTiles, ty |-> InitTiles]
  /\ tout = NoTile

InitField ==
  /\ InitCommon(MaxStrokes)
  /\ tin = [x |-> 0, z |-> 0, tx |-> InitTiles, ty |-> InitTiles]
  /\ tout = NoTile

\* ------------------------------------------------------------ applySculpt
BrushHeights(r, h, tx, ty, hx, hz, mode, radius, step) ==
  CASE r \in {"mono", "tiles"} -> SculptTiles(h, tx, ty, hx, hz, mode, radius, step)
    [] r = "full" ->
         SculptFull(h, tx * SUBDIVISIONS, ty * SUBDIVISIONS, PlaneW(tx), PlaneH(ty),
                    hx, hz, mode, radius, step)
    [] OTHER ->
         SculptBounded(h, tx * SUBDIVISIONS, ty * SUBDIVISIONS, PlaneW(tx), PlaneH(ty),
                       hx, hz, mode, radius, step)

\* bounded scan, smooth: "if (!picks.length) return;" skips the refresh tail
BrushReturnsEarly(r, tx, ty, hx, hz, mode, radius) ==
  /\ r \in {"bounded", "vendored"}
  /\ mode = "smooth"
  /\ BoundedPicks(tx * SUBDIVISIONS, ty * SUBDIVISIONS, PlaneW(tx), PlaneH(ty),
                  hx, hz, radius) = {}

\* every height index one applySculpt call computes
BrushIndices(r, h, tx, ty, hx, hz, mode, radius) ==
  CASE r \in {"mono", "tiles"} ->
         LET t == WorldToTile(hx, hz, tx, ty)
         IN  IF mode = "smooth" THEN SmoothSet(t.i, t.j, radius, tx, ty)
             ELSE UNION {TileCornerIndices(q[1], q[2], tx + 1) :
                           q \in TilesTouched(t.i, t.j, radius, tx, ty)}
    [] r = "full" -> DOMAIN h
    [] OTHER -> BoundedScanned(tx * SUBDIVISIONS, ty * SUBDIVISIONS,
                               PlaneW(tx), PlaneH(ty), hx, hz, radius)

\* the tail of applySculpt once the new heights h2 are stored
SculptTail(h2, early) ==
  /\ heights' = h2
  /\ gpuFresh' = (gpuFresh /\ h2 = heights)
  /\ IF early
     THEN UNCHANGED <<posDirty, normalsOf, overlay, ball>>
     ELSE /\ posDirty' = TRUE
          /\ normalsOf' = h2
          /\ overlay' = IF BrushRebuildsOverlay(rev)
                        THEN BuildOverlay(rev, h2, tilesX, tilesY)
                        ELSE overlay
          /\ ball' = [ball EXCEPT
                        !.y = SnapToTile(rev, h2, tilesX, tilesY, ball.tileI, ball.tileJ)]

ApplySculpt(hx, hz, mode, radius, step) ==
  SculptTail(BrushHeights(rev, heights, tilesX, tilesY, hx, hz, mode, radius, step),
             BrushReturnsEarly(rev, tilesX, tilesY, hx, hz, mode, radius))

BrushOob(hx, hz, mode, radius) ==
  \E idx \in BrushIndices(rev, heights, tilesX, tilesY, hx, hz, mode, radius) :
    idx \notin DOMAIN heights

\* a direct call applySculpt(hitPoint, appState, uiState)
Brush(hx, hz, mode, radius, step) ==
  /\ ops < budget
  /\ ApplySculpt(hx, hz, mode, radius, step)
  /\ strokes' = strokes + 1
  /\ ops' = ops + 1
  /\ prev' = heights
  /\ last' = Done("brush", Hit(hx, hz), mode, radius, step, TRUE, BrushOob(hx, hz, mode, radius))
  /\ UNCHANGED <<rev, requests, navPaused, binding, markers, tilesX, tilesY, ui, dragging, allowTapMove, painter, budget, tin, tout>>

\* ------------------------------------------------- randomize / template
\* the refresh tail shared by randomizeTerrain and applyHeightmapTemplate
RefreshAfter(h2) ==
  /\ heights' = h2
  /\ gpuFresh' = (gpuFresh /\ h2 = heights)
  /\ posDirty' = TRUE
  /\ normalsOf' = h2
  /\ overlay' = BuildOverlay(rev, h2, tilesX, tilesY)
  /\ ball' = [ball EXCEPT !.y = SnapToTile(rev, h2, tilesX, tilesY, ball.tileI, ball.tileJ)]

JitterUnclamped(y, d) == y + d
JitterClamped(y, d) == Clamp(y + d, MIN_H, MAX_H)

RandomizedHeights(r, h, p) ==
  IF r = "vendored"
  THEN [idx \in DOMAIN h |-> JitterClamped(h[idx], JitterDelta(p, idx, VendoredJitterAmp))]
  ELSE [idx \in DOMAIN h |-> JitterUnclamped(h[idx], JitterDelta(p, idx, JitterAmp))]

\* randomizeTerrain / the randomize button ("tiles": the body is elided)
Randomize(p) ==
  /\ ops < budget
  /\ IF rev = "tiles" THEN UNCHANGED fieldVars
     ELSE RefreshAfter(RandomizedHeights(rev, heights, p))
  /\ ops' = ops + 1
  /\ prev' = heights
  /\ last' = Done("randomize", NoHit, p, 0, 0, FALSE, FALSE)
  /\ UNCHANGED <<rev, requests, navPaused, binding, markers, tilesX, tilesY, ui, dragging, allowTapMove, painter, strokes, budget,
                 tin, tout>>

TemplateHeights(r, h, name, p) ==
  IF r = "vendored"
  THEN [idx \in DOMAIN h |->
          TemplateHeight(NoiseAt(IF name = "Flat" THEN "Perlin" ELSE name, p, idx),
                         MIN_H, MAX_H)]
  ELSE [idx \in DOMAIN h |-> TemplateHeight(NoiseAt(name, p, idx), TEMPLATE_MIN, TEMPLATE_MAX)]

\* applyHeightmapTemplate / applyTemplate ("tiles": the body is elided)
ApplyTemplate(name, p) ==
  /\ ops < budget
  /\ IF rev = "tiles" THEN UNCHANGED fieldVars
     ELSE RefreshAfter(TemplateHeights(rev, heights, name, p))
  /\ ops' = ops + 1
  /\ prev' = heights
  /\ last' = Done("template", NoHit, name, 0, 0, FALSE, FALSE)
  /\ UNCHANGED <<rev, requests, navPaused, binding, markers, tilesX, tilesY, ui, dragging, allowTapMove, painter, strokes, budget,
                 tin, tout>>

\* ----------------------------------------------------------------- render
\* one animation frame: the renderer uploads the buffer if needsUpdate was set
Render ==
  /\ posDirty' = FALSE
  /\ gpuFresh' = (posDirty \/ gpuFresh)
  /\ prev' = heights
  /\ last' = Done("render", NoHit, "raise", 0, 0, FALSE, FALSE)
  /\ UNCHANGED <<rev, requests, navPaused, binding, markers, tilesX, tilesY, heights, normalsOf, overlay, ball, ui, dragging,
                 allowTapMove, painter, strokes, ops, budget, tin, tout>>

\* ------------------------------------------------------------ UI handlers
\* genTerrain click: TILES = max(2, min(256, parseInt(value))), createTerrain
GenClamp(raw) == Max2(2, Min2(256, raw))

GenTerrain(rawX, rawY) ==
  LET tx == GenClamp(rawX)
      ty == GenClamp(rawY)
      h2 == FlatHeights(tx * SegsPerTile(rev), ty * SegsPerTile(rev))
  IN  /\ ops < budget
      /\ tilesX' = tx
      /\ tilesY' = ty
      /\ heights' = h2
      /\ posDirty' = TRUE
      /\ gpuFresh' = FALSE
      /\ normalsOf' = h2
      /\ overlay' = BuildOverlay(rev, h2, tx, ty)
      /\ ball' = NewMarker(rev, h2, tx, ty)
      /\ ops' = ops + 1
      /\ prev' = heights
      /\ last' = Done("gen", NoHit, "raise", 0, 0, FALSE, FALSE)
      /\ markers' = Append(StaleAll(DisposeBall(markers)), TRUE)
      /\ requests' = CreateTerrainRequests(rev, requests)
      /\ binding' = NewTerrainBinding(binding)
      /\ UNCHANGED <<rev, navPaused, ui, dragging, allowTapMove, painter, strokes, budget, tin, tout>>

UiChange(u2) ==
  /\ ops < budget
  /\ ui' = u2
  /\ ops' = ops + 1
  /\ prev' = heights
  /\ last' = Done("ui", NoHit, u2.mode, u2.radius, u2.step, FALSE, FALSE)
  /\ UNCHANGED <<rev, requests, navPaused, binding, markers, tilesX, tilesY, heights, posDirty, gpuFresh, normalsOf, overlay, ball,
                 dragging, allowTapMove, painter, strokes, budget, tin, tout>>

SetSculptOn(b) == UiChange([ui EXCEPT !.sculptOn = b])
SetMode(m) == UiChange([ui EXCEPT !.mode = m])
SetRadius(r) == UiChange([ui EXCEPT !.radius = r])
SetStep(s) == UiChange([ui EXCEPT !.step = s])

\* painter.setActive(key): also dispatches tc:navlock { paused: !!key }
PainterSetActive(key) ==
  /\ ops < budget
  /\ HasPainter(rev)
  /\ painter' = [painter EXCEPT !.activeKey = key]
  /\ allowTapMove' = (key = "none")
  /\ ops' = ops + 1
  /\ prev' = heights
  /\ last' = Done("activate", NoHit, key, 0, 0, FALSE, FALSE)
  /\ UNCHANGED <<rev, requests, navPaused, binding, markers, tilesX, tilesY, heights, posDirty, gpuFresh, normalsOf, overlay, ball,
                 ui, dragging, strokes, budget, tin, tout>>

\* -------------------------------------------------------- pointer handlers
\* main.js cast: r = max(0, min(6, parseInt(radiusInput.value) || 0))
CastRadius(r, radius) == IF r = "mono" THEN Max2(0, Min2(6, radius)) ELSE radius

\* pointerdown listener of initSculpting: "if (!sculptOn) return; dragging = true"
DownStartsDrag == ui.sculptOn

\* pointermove listener: "if (dragging && sculptOn) cast(ev)"
MoveAlways == ui.sculptOn
MoveCasts == dragging /\ ui.sculptOn

\* initTapToMove's guard
TapMoves == ~ui.sculptOn /\ allowTapMove

\* texturepaint.js _onPointerDown's guard
PaintAlways == HasPainter(rev)
PaintActive == HasPainter(rev) /\ painter.activeKey # "none"

PaintOob(hit) ==
  LET t == WorldToTile(hit.x, hit.z, tilesX, tilesY)
  IN  \E idx \in PaintBlock(t.i, t.j, tilesX) : idx < 0 \/ idx >= painter.maskLen

\* the HUD exists where main.js calls initNavLock and listens for tc:navlock
HasNavLock(r) == r \in {"bounded", "vendored"}

\* the HUD toggle changes to p: setPaused(checked) stores the flag and dispatches
\* tc:navlock { paused }; main.js's listener sets allowTapMove = !paused
NavLockSetPaused(p) ==
  /\ ops < budget
  /\ HasNavLock(rev)
  /\ navPaused' = p
  /\ allowTapMove' = ~p
  /\ ops' = ops + 1
  /\ prev' = heights
  /\ last' = Done("navlock", NoHit, "raise", 0, 0, FALSE, FALSE)
  /\ UNCHANGED <<rev, requests, binding, markers, tilesX, tilesY, heights, posDirty, gpuFresh,
                 normalsOf, overlay, ball, ui, dragging, painter, strokes, budget, tin, tout>>

\* painter.attachToTerrain(), which the tc:terrain-rebuilt listener calls:
\* "if (!terrainMesh || !terrainMaterial) return", then the masks are sized
\* for the current geometry and the current material is hooked
AttachToTerrain ==
  /\ ops < budget
  /\ HasPainter(rev)
  /\ painter' = AddOrResizeMaskAttributes(painter, VertexCount(WSeg, HSeg),
                                           binding.maskCurrent)
  /\ binding' = Attach(binding)
  /\ ops' = ops + 1
  /\ prev' = heights
  /\ last' = Done("attach", NoHit, "raise", 0, 0, FALSE, FALSE)
  /\ UNCHANGED <<rev, requests, navPaused, markers, tilesX, tilesY, heights, posDirty,
                 gpuFresh, normalsOf, overlay, ball, ui, dragging, allowTapMove, strokes,
                 budget, tin, tout>>

\* one pointerdown on the canvas: every pointerdown listener runs
PointerDown(hit) ==
  LET t == WorldToTile(hit.x, hit.z, tilesX, tilesY)
      sculpts == DownStartsDrag /\ hit.on
      r == CastRadius(rev, ui.radius)
  IN  /\ ops < budget
      /\ dragging' = (IF DownStartsDrag THEN TRUE ELSE dragging)
      /\ IF sculpts
         THEN /\ ApplySculpt(hit.x, hit.z, ui.mode, r, ui.step)
              /\ strokes' = strokes + 1
         ELSE /\ UNCHANGED <<heights, posDirty, gpuFresh, normalsOf, overlay, strokes>>
              /\ ball' = IF TapMoves /\ hit.on
                         THEN PlaceOnTile(rev, heights, tilesX, tilesY, t.i, t.j)
                         ELSE ball
      /\ painter' = IF PaintActive /\ hit.on
                    THEN PaintTileActive(painter, t.i, t.j, tilesX)
                    ELSE painter
      /\ ops' = ops + 1
      /\ prev' = heights
      /\ last' = Done("down", hit, ui.mode, r, ui.step, sculpts,
                      \/ (sculpts /\ BrushOob(hit.x, hit.z, ui.mode, r))
                      \/ (PaintActive /\ hit.on /\ PaintOob(hit)))
      /\ UNCHANGED <<rev, requests, navPaused, binding, markers, tilesX, tilesY, ui, allowTapMove, budget, tin, tout>>

\* one pointermove on the canvas
PointerMove(hit) ==
  LET casts == MoveCasts /\ hit.on
      r == CastRadius(rev, ui.radius)
  IN  /\ ops < budget
      /\ IF casts
         THEN /\ ApplySculpt(hit.x, hit.z, ui.mode, r, ui.step)
              /\ strokes' = strokes + 1
         ELSE UNCHANGED <<heights, posDirty, gpuFresh, normalsOf, overlay, ball, strokes>>
      /\ ops' = ops + 1
      /\ prev' = heights
      /\ last' = Done("move", hit, ui.mode, r, ui.step, casts,
                      casts /\ BrushOob(hit.x, hit.z, ui.mode, r))
      /\ UNCHANGED <<rev, requests, navPaused, binding, markers, tilesX, tilesY, ui, dragging, allowTapMove, painter, budget,
                     tin, tout>>

\* window.addEventListener('pointerup', ...): the listener is on window, so a
\* pointerup reaches it wherever the pointer is
UpOnCanvasOnly(where) == where = "canvas"
UpReachesListener(where) == where \in {"canvas", "outside"}

PointerUp(where) ==
  /\ ops < budget
  /\ dragging' = (IF UpReachesListener(where) THEN FALSE ELSE dragging)
  /\ ops' = ops + 1
  /\ prev' = heights
  /\ last' = Done("up", NoHit, where, 0, 0, FALSE, FALSE)
  /\ UNCHANGED <<rev, requests, navPaused, binding, markers, tilesX, tilesY, heights, posDirty, gpuFresh, normalsOf, overlay, ball,
                 ui, allowTapMove, painter, strokes, budget, tin, tout>>

\* ----------------------------------------------------------- paint region
\* paintTextureOnTile: tiles of the square around (ci, cj) that are in bounds
\* and have Math.hypot(i - ci, j - cj) <= radius
RegionDisc(ci, cj, r, tx, ty) ==
  {t \in ((ci - r)..(ci + r)) \X ((cj - r)..(cj + r)) :
     /\ t[1] >= 0 /\ t[1] < tx /\ t[2] >= 0 /\ t[2] < ty
     /\ (t[1] - ci) * (t[1] - ci) + (t[2] - cj) * (t[2] - cj) <= r * r}

\* _paintArea: every tile of the square around the centre, _paintTileSingle
\* dropping the ones out of bounds
RegionSquare(ci, cj, r, tx, ty) ==
  {t \in ((ci - Max2(0, r))..(ci + Max2(0, r))) \X ((cj - Max2(0, r))..(cj + Max2(0, r))) :
     ~(t[1] < 0 \/ t[2] < 0 \/ t[1] >= tx \/ t[2] >= ty)}

RegionVariants == {"paintTextureOnTile", "_paintArea"}

PaintRegion(variant, ci, cj, r, tx, ty) ==
  IF variant = "_paintArea" THEN RegionSquare(ci, cj, r, tx, ty)
  ELSE RegionDisc(ci, cj, r, tx, ty)

InitRegion ==
  /\ InitCommon(MaxOps)
  /\ tin \in [variant : RegionVariants, ci : 0..(MaxTiles - 1), cj : 0..(MaxTiles - 1),
               r : Radii, tx : 2..MaxTiles, ty : 2..MaxTiles]
  /\ tin.ci < tin.tx
  /\ tin.cj < tin.ty
  /\ tout = NoTile

\* one area paint around tile (ci, cj): the set of tiles whose block it writes
RegionQuery ==
  /\ tout = NoTile
  /\ tout' = [tiles |-> PaintRegion(tin.variant, tin.ci, tin.cj, tin.r, tin.tx, tin.ty)]
  /\ UNCHANGED <<rev, requests, navPaused, binding, markers, tilesX, tilesY, heights, posDirty, gpuFresh, normalsOf, overlay, ball,
                 ui, dragging, allowTapMove, painter, strokes, ops, budget, last, prev, tin>>

\* ------------------------------------------------------------- tile query
TileCounts == 2..MaxTiles
BigCoord == 1000000
TileCoords == {-BigCoord, -97, -49, -48, -33, -32, -1, 0, 1, 31, 32, 47, 48, 96, BigCoord}

InitTile ==
  /\ InitCommon(MaxOps)
  /\ tin \in [x : TileCoords, z : {-BigCoord, -32, 0, 31, 48}, tx : TileCounts, ty : TileCounts]
  /\ tout = NoTile

\* a call worldToTile(x, z) / localToTile(x, z, config)
TileQuery ==
  /\ tout = NoTile
  /\ tout' = WorldToTile(tin.x, tin.z, tin.tx, tin.ty)
  /\ UNCHANGED <<rev, requests, navPaused, binding, markers, tilesX, tilesY, heights, posDirty, gpuFresh, normalsOf, overlay, ball,
                 ui, dragging, allowTapMove, painter, strokes, ops, budget, last, prev, tin>>

\* --------------------------------------------------------------- marker API
FarIndex == 99
MaxMarkers == 3
MarkerIndices == {-FarIndex, -1, 0, 1, InitTiles, FarIndex}

\* which collaborators a constructor call passes
Collaborators == [three : BOOLEAN, scene : BOOLEAN, terrainMesh : BOOLEAN, config : BOOLEAN]
AllPresent == [three |-> TRUE, scene |-> TRUE, terrainMesh |-> TRUE, config |-> TRUE]

\* if (!three || !scene || !terrainMesh || !config) throw ...; the variant
\* without config does not ask for it
MarkerRequires(r, c) ==
  c.three /\ c.scene /\ c.terrainMesh /\ (MarkerHasConfig(r) => c.config)

\* where the constructor throws: "guard" is its first statement; past it the
\* fields are stored, then the mesh is built, added to the scene and snapped
ThrowPointLate(r, c) ==
  CASE ~c.three -> "geometry"
    [] c.three /\ ~c.scene -> "add"
    [] c.three /\ c.scene /\ ~MarkerRequires(r, c) -> "snap"
    [] OTHER -> "none"
ThrowPoint(r, c) == IF ~MarkerRequires(r, c) THEN "guard" ELSE "none"

NoOutcome == [threw |-> FALSE, stored |-> FALSE, added |-> FALSE]
Outcome(point) ==
  [threw |-> point # "none", stored |-> point # "guard", added |-> point \in {"snap", "none"}]

\* new BallMarker({three, scene, terrainMesh, config, tileI: i, tileJ: j}) on
\* the current terrain, each collaborator passed or left out
MarkerConstructWith(c, i, j) ==
  /\ Len(markers) < MaxMarkers
  /\ tin' = [kind |-> "marker", c |-> c]
  /\ tout' = Outcome(ThrowPoint(rev, c))
  /\ markers' = IF Outcome(ThrowPoint(rev, c)).added THEN Append(markers, TRUE) ELSE markers
  /\ ball' = IF Outcome(ThrowPoint(rev, c)).threw
             THEN ball
             ELSE BallMarkerNew(rev, heights, tilesX, tilesY, i, j)
  /\ UNCHANGED <<rev, requests, navPaused, binding, tilesX, tilesY, heights, posDirty, gpuFresh, normalsOf, overlay,
                 ui, dragging, allowTapMove, painter, strokes, ops, budget, last, prev>>

MarkerConstruct(i, j) == MarkerConstructWith(AllPresent, i, j)

\* createPaintableTerrainMaterial(appState): throws first when appState.paint
\* is missing, otherwise builds the material; nothing enters the scene
CreatePaintableMaterial(hasPaint) ==
  /\ tin' = [kind |-> "material", c |-> [AllPresent EXCEPT !.config = hasPaint]]
  /\ tout' = [threw |-> ~hasPaint, stored |-> hasPaint, added |-> FALSE]
  /\ UNCHANGED <<rev, requests, navPaused, binding, markers, tilesX, tilesY, heights, posDirty, gpuFresh, normalsOf,
                 overlay, ball, ui, dragging, allowTapMove, painter, strokes, ops, budget,
                 last, prev>>

InitConstruct ==
  /\ InitCommon(MaxOps)
  /\ tin = [kind |-> "none", c |-> AllPresent]
  /\ tout = NoOutcome

\* ball.placeOnTile(i, j)
MarkerPlace(i, j) ==
  /\ ball' = PlaceOnTile(rev, heights, tilesX, tilesY, i, j)
  /\ UNCHANGED <<rev, requests, navPaused, binding, markers, tilesX, tilesY, heights, posDirty, gpuFresh, normalsOf, overlay,
                 ui, dragging, allowTapMove, painter, strokes, ops, budget, last, prev,
                 tin, tout>>

\* ball.refresh(): snap again at the stored indices
MarkerRefresh ==
  /\ ball' = [ball EXCEPT !.y = SnapToTile(rev, heights, tilesX, tilesY,
                                           ball.tileI, ball.tileJ)]
  /\ UNCHANGED <<rev, requests, navPaused, binding, markers, tilesX, tilesY, heights, posDirty, gpuFresh, normalsOf, overlay,
                 ui, dragging, allowTapMove, painter, strokes, ops, budget, last, prev,
                 tin, tout>>

\* ------------------------------------------------------------ sample query
Samplers == {"terrain", "marker"}
OutsideCoord == 40
SampleXs == {-OutsideCoord, -32, -24, 0, 5, 32, OutsideCoord}
SampleZs == {-OutsideCoord, -32, 0, 5, 32, OutsideCoord}

\* the four cells a sampler reads and its fractions
SamplerCells(which, r, tx, ty, x, z) ==
  CASE which = "marker" ->
         MarkerSampleCells(tx * SegsPerTile(r), ty * SegsPerTile(r), PlaneW(tx), PlaneH(ty), x, z)
    [] which # "marker" /\ r = "mono" -> MonoSampleCells(tx, ty, x, z)
    [] OTHER ->
         SampleCells(tx * SegsPerTile(r), ty * SegsPerTile(r), PlaneW(tx), PlaneH(ty), x, z)

\* sampleHeightLocal(x, z) of the terrain side, or of the marker
Sampler(which, r, h, tx, ty, x, z) ==
  IF which = "marker"
  THEN MarkerSampleHeightLocal(h, tx * SegsPerTile(r), ty * SegsPerTile(r),
                               PlaneW(tx), PlaneH(ty), x, z)
  ELSE TerrainSample(r, h, tx, ty, x, z)

\* one call of a sampler at local (x, z); the marker has a bilinear sampler
\* of its own only in the variants that take config
SampleQuery(which, x, z) ==
  /\ which = "marker" => MarkerHasConfig(rev)
  /\ tin' = [which |-> which, x |-> x, z |-> z]
  /\ tout' = [y |-> Sampler(which, rev, heights, tilesX, tilesY, x, z)]
  /\ last' = Done("sample", Hit(x, z), "raise", 0, 0, TRUE, FALSE)
  /\ UNCHANGED <<rev, requests, navPaused, binding, markers, tilesX, tilesY, heights, posDirty, gpuFresh, normalsOf, overlay,
                 ball, ui, dragging, allowTapMove, painter, strokes, ops, budget, prev>>

\* -------------------------------------------------------- terrain size input
DefaultTiles == 30
\* what the tilesX / tilesY inputs may hold: nothing, a number, other text
NoValue == [kind |-> "empty", n |-> 0]
TextValue == [kind |-> "text", n |-> 0]
NumValue(k) == [kind |-> "num", n |-> k]
InputValues ==
  {NoValue, TextValue} \cup {NumValue(k) : k \in {-BigCoord, -1, 0, 1, 2, 3, 256, 257, BigCoord}}

\* Math.max(2, Math.min(256, parseInt(value || '30', 10))): parseInt of text
\* that does not start with a number is NaN, which min and max pass on
RequestedTiles(v) ==
  CASE v.kind = "empty" -> [nan |-> FALSE, n |-> GenClamp(DefaultTiles)]
    [] v.kind = "text"  -> [nan |-> TRUE, n |-> 0]
    [] OTHER            -> [nan |-> FALSE, n |-> GenClamp(v.n)]

\* the parameters createTerrain hands to PlaneGeometry for the rebuilt field
FieldParams(r, nx, ny) ==
  [nan |-> nx.nan \/ ny.nan,
   tilesX |-> nx.n, tilesY |-> ny.n,
   width |-> nx.n * TILE_SIZE, height |-> ny.n * TILE_SIZE,
   widthSegments |-> nx.n * SegsPerTile(r), heightSegments |-> ny.n * SegsPerTile(r)]

InitSize ==
  /\ InitCommon(MaxOps)
  /\ tin \in [vx : InputValues, vy : InputValues]
  /\ tout = NoTile

\* the Generate button with the two inputs holding vx and vy, up to the
\* geometry's parameters
SizeQuery ==
  /\ tout = NoTile
  /\ tout' = FieldParams(rev, RequestedTiles(tin.vx), RequestedTiles(tin.vy))
  /\ UNCHANGED <<rev, requests, navPaused, binding, markers, tilesX, tilesY, heights, posDirty, gpuFresh, normalsOf, overlay,
                 ball, ui, dragging, allowTapMove, painter, strokes, ops, budget, last, prev,
                 tin>>

\* ------------------------------------------------------------ paint assets
AssetKeys == {"map", "roughness", "normal"}
\* the two maps the injected fragment code reads
SampledKeys == {"map", "roughness"}
MaxMaterials == 2

\* loadSandMaps: each map resolves to a texture (TRUE) or to null (FALSE)
LoadResults == [AssetKeys -> BOOLEAN]
Placeholders == [k \in AssetKeys |-> "placeholder"]

NoPaintSystem ==
  [inited |-> FALSE, resolved |-> FALSE, sandMaps |-> [k \in AssetKeys |-> FALSE],
   uniforms |-> "none", made |-> 0, compiled |-> FALSE, value |-> Placeholders]

\* the uniform objects a new material will inject: the neutral textures,
\* replaced by the maps that are already in paint.sandMaps
UniformsToInject(p) ==
  [k \in AssetKeys |-> IF p.resolved /\ p.sandMaps[k] THEN "real" ELSE "placeholder"]

\* if (appState.paint.uniforms) { if (maps.map) uniforms.uSandMap.value = ... }
\* the uniforms pointer is the compiled shader's, which may belong to the
\* current material ("current") or to one made before it ("old")
PushMaps(p, m) ==
  IF p.uniforms = "current"
  THEN [k \in AssetKeys |-> IF m[k] THEN "real" ELSE p.value[k]]
  ELSE p.value

InitAsset ==
  /\ InitCommon(MaxOps)
  /\ tin = [event |-> "none"]
  /\ tout = NoPaintSystem

\* initPaintSystem(appState): appState.paint with sandMaps and uniforms null,
\* and the load started
InitPaintSystem ==
  /\ ~tout.inited
  /\ tin' = [event |-> "init"]
  /\ tout' = [tout EXCEPT !.inited = TRUE]
  /\ UNCHANGED <<rev, requests, navPaused, binding, markers, tilesX, tilesY, heights, posDirty, gpuFresh, normalsOf,
                 overlay, ball, ui, dragging, allowTapMove, painter, strokes, ops, budget,
                 last, prev>>

\* the awaited loadSandMaps resolves with m
LoadResolves(m) ==
  /\ tout.inited
  /\ ~tout.resolved
  /\ tin' = [event |-> "resolve"]
  /\ tout' = [tout EXCEPT !.resolved = TRUE, !.sandMaps = m, !.value = PushMaps(tout, m)]
  /\ UNCHANGED <<rev, requests, navPaused, binding, markers, tilesX, tilesY, heights, posDirty, gpuFresh, normalsOf,
                 overlay, ball, ui, dragging, allowTapMove, painter, strokes, ops, budget,
                 last, prev>>

\* createPaintableTerrainMaterial(appState) with appState.paint present: a
\* new material, not compiled yet, becomes the terrain's material
CreatePaintableTerrainMaterial ==
  /\ tout.inited
  /\ tout.made < MaxMaterials
  /\ tin' = [event |-> "create"]
  /\ tout' = [tout EXCEPT !.made = @ + 1,
                          !.compiled = FALSE,
                          !.value = UniformsToInject(tout),
                          !.uniforms = IF @ = "none" THEN "none" ELSE "old"]
  /\ UNCHANGED <<rev, requests, navPaused, binding, markers, tilesX, tilesY, heights, posDirty, gpuFresh, normalsOf,
                 overlay, ball, ui, dragging, allowTapMove, painter, strokes, ops, budget,
                 last, prev>>

\* mat.onBeforeCompile(shader) of the terrain's material: the injected
\* uniform objects become the shader's and paint.uniforms points at them
OnBeforeCompile ==
  /\ tout.made > 0
  /\ ~tout.compiled
  /\ tin' = [event |-> "compile"]
  /\ tout' = [tout EXCEPT !.compiled = TRUE, !.uniforms = "current"]
  /\ UNCHANGED <<rev, requests, navPaused, binding, markers, tilesX, tilesY, heights, posDirty, gpuFresh, normalsOf,
                 overlay, ball, ui, dragging, allowTapMove, painter, strokes, ops, budget,
                 last, prev>>

\* ------------------------------------------------------------ bootstrap
\* the gated bootstrap has two revisions; only the later one listens for keys
BootRevs == {"click", "keys"}
\* addStep is called twice: browser features, application entry file
NumSteps == 2
MaxImports == 3
Keys == {"Enter", " ", "a"}

\* 'Checking browser features' throws on a missing API; 'Checking
\* application entry file' catches whatever its fetch raises
StepCanThrow(i) == i = 0

\* the page once the bootstrap screen is built: <button id="tc-continue"
\* disabled>, window.__tcBootstrapActive = true, no step run yet
BootStart ==
  [step |-> 0, failed |-> FALSE, disabled |-> TRUE, inflight |-> 0, started |-> 0,
   succeeded |-> FALSE, fade |-> 0, active |-> TRUE, screen |-> TRUE]

\* the click handler up to its await: btnContinue.disabled = true, then
\* import('./src/main.js') is started
LaunchLeavesEnabled(b) ==
  [b EXCEPT !.inflight = @ + 1, !.started = @ + 1]
Launch(b) ==
  [b EXCEPT !.disabled = TRUE, !.inflight = @ + 1, !.started = @ + 1]

InitBoot ==
  /\ InitCommon(MaxOps)
  /\ tin \in [bootRev : BootRevs, event : {"none"}]
  /\ tout = BootStart

\* runPreflight: the next step's fn() resolves; after the last one
\* btnContinue.disabled = false
StepPasses ==
  /\ ~tout.failed
  /\ tout.step < NumSteps
  /\ tin' = [tin EXCEPT !.event = "step"]
  /\ tout' = [tout EXCEPT !.step = @ + 1,
                          !.disabled = IF tout.step + 1 = NumSteps THEN FALSE ELSE @]
  /\ UNCHANGED <<rev, requests, navPaused, binding, markers, tilesX, tilesY, heights, posDirty,
                 gpuFresh, normalsOf, overlay, ball, ui, dragging, allowTapMove, painter,
                 strokes, ops, budget, last, prev>>

\* runPreflight: the next step's fn() throws; the runner returns
StepThrows ==
  /\ ~tout.failed
  /\ tout.step < NumSteps
  /\ StepCanThrow(tout.step)
  /\ tin' = [tin EXCEPT !.event = "stepFail"]
  /\ tout' = [tout EXCEPT !.failed = TRUE]
  /\ UNCHANGED <<rev, requests, navPaused, binding, markers, tilesX, tilesY, heights, posDirty,
                 gpuFresh, normalsOf, overlay, ball, ui, dragging, allowTapMove, painter,
                 strokes, ops, budget, last, prev>>

\* the user clicks Continue; a disabled button dispatches no click
ClickContinue ==
  /\ tout.screen
  /\ ~tout.disabled
  /\ tout.started < MaxImports
  /\ tin' = [tin EXCEPT !.event = "click"]
  /\ tout' = Launch(tout)
  /\ UNCHANGED <<rev, requests, navPaused, binding, markers, tilesX, tilesY, heights, posDirty,
                 gpuFresh, normalsOf, overlay, ball, ui, dragging, allowTapMove, painter,
                 strokes, ops, budget, last, prev>>

\* keydown on window: Enter or Space clicks Continue unless it is disabled
KeyDown(key) ==
  /\ tin.bootRev = "keys"
  /\ tout.started < MaxImports
  /\ tin' = [tin EXCEPT !.event = "key"]
  /\ tout' = IF key \in {"Enter", " "} /\ ~tout.disabled THEN Launch(tout) ELSE tout
  /\ UNCHANGED <<rev, requests, navPaused, binding, markers, tilesX, tilesY, heights, posDirty,
                 gpuFresh, normalsOf, overlay, ball, ui, dragging, allowTapMove, painter,
                 strokes, ops, budget, last, prev>>

\* the awaited import resolves: 'Ready', and the fade-out timers are set
ImportSucceeds ==
  /\ tout.inflight > 0
  /\ tin' = [tin EXCEPT !.event = "imported"]
  /\ tout' = [tout EXCEPT !.inflight = @ - 1, !.succeeded = TRUE,
                          !.fade = IF @ = 0 THEN 1 ELSE @]
  /\ UNCHANGED <<rev, requests, navPaused, binding, markers, tilesX, tilesY, heights, posDirty,
                 gpuFresh, normalsOf, overlay, ball, ui, dragging, allowTapMove, painter,
                 strokes, ops, budget, last, prev>>

\* the awaited import rejects: the screen stays and Continue is enabled again
ImportFails ==
  /\ tout.inflight > 0
  /\ tin' = [tin EXCEPT !.event = "importFail"]
  /\ tout' = [tout EXCEPT !.inflight = @ - 1, !.disabled = FALSE]
  /\ UNCHANGED <<rev, requests, navPaused, binding, markers, tilesX, tilesY, heights, posDirty,
                 gpuFresh, normalsOf, overlay, ball, ui, dragging, allowTapMove, painter,
                 strokes, ops, budget, last, prev>>

\* the two nested timeouts: opacity first, then the flag is cleared and the
\* screen removed
FadeTimer ==
  /\ tout.fade \in {1, 2}
  /\ tin' = [tin EXCEPT !.event = "timer"]
  /\ tout' = IF tout.fade = 1
             THEN [tout EXCEPT !.fade = 2]
             ELSE [tout EXCEPT !.fade = 3, !.active = FALSE, !.screen = FALSE]
  /\ UNCHANGED <<rev, requests, navPaused, binding, markers, tilesX, tilesY, heights, posDirty,
                 gpuFresh, normalsOf, overlay, ball, ui, dragging, allowTapMove, painter,
                 strokes, ops, budget, last, prev>>

\* ------------------------------------------------------------ tree scatter
MaxTreeCount == 5
TreeCounts == -1..MaxTreeCount

NoTrees == [phase |-> "idle", count |-> 0, max |-> 0, used |-> {}, placed |-> 0,
            trees |-> <<>>]

\* if (used.has(key)) continue;
TreeSkipsNever(used, key) == FALSE
TreeSkips(used, key) == key \in used

\* populateTrees(count) up to the loop: clear the old group, return on
\* count <= 0, otherwise cap the target at the number of tiles
PopulateTrees(count) ==
  /\ tout.phase # "running"
  /\ tout' = IF count <= 0
             THEN [NoTrees EXCEPT !.phase = "done", !.count = count]
             ELSE [NoTrees EXCEPT !.phase = "running", !.count = count,
                                  !.max = Min2(count, tilesX * tilesY)]
  /\ UNCHANGED <<rev, requests, navPaused, binding, markers, tilesX, tilesY, heights, posDirty, gpuFresh, normalsOf, overlay, ball,
                 ui, dragging, allowTapMove, painter, strokes, ops, budget, last, prev, tin>>

\* one iteration of while (placed < max) with the random draw (i, j)
TreeDraw(i, j) ==
  /\ tout.phase = "running"
  /\ tout.placed < tout.max
  /\ tout' = IF TreeSkips(tout.used, <<i, j>>)
             THEN tout
             ELSE [tout EXCEPT
                     !.used = @ \cup {<<i, j>>},
                     !.trees = Append(@, [i |-> i, j |-> j,
                                 y |-> TerrainSample(rev, heights, tilesX, tilesY,
                                         TileCenterX(i, tilesX), TileCenterZ(j, tilesY))]),
                     !.placed = @ + 1]
  /\ UNCHANGED <<rev, requests, navPaused, binding, markers, tilesX, tilesY, heights, posDirty, gpuFresh, normalsOf, overlay, ball,
                 ui, dragging, allowTapMove, painter, strokes, ops, budget, last, prev, tin>>

\* the loop condition fails: terrainGroup.add(treesGroup) and return
TreeLoopExit ==
  /\ tout.phase = "running"
  /\ ~(tout.placed < tout.max)
  /\ tout' = [tout EXCEPT !.phase = "done"]
  /\ UNCHANGED <<rev, requests, navPaused, binding, markers, tilesX, tilesY, heights, posDirty, gpuFresh, normalsOf, overlay, ball,
                 ui, dragging, allowTapMove, painter, strokes, ops, budget, last, prev, tin>>

InitTrees ==
  /\ InitCommon(MaxOps)
  /\ tin = [x |-> 0, z |-> 0, tx |-> InitTiles, ty |-> InitTiles]
  /\ tout = NoTrees

\* --------------------------------------------------------- specifications
FieldHits == {<<-28, -28>>, <<0, 0>>, <<40, 4>>}
AppHits == {NoHit, Hit(-28, -28), Hit(20, 20)}
AppSteps == {StepSmall, StepHuge}
GenRaw == {1, MaxTiles}

\* the field API called directly
NextField ==
  \/ \E c \in FieldHits, m \in Modes, r \in Radii, s \in Steps : Brush(c[1], c[2], m, r, s)
  \/ \E p \in JitterPatterns : Randomize(p)
  \/ \E n \in TemplateNames, p \in JitterPatterns : ApplyTemplate(n, p)
  \/ Render

SpecField == InitField /\ [][NextField]_vars

\* the application: DOM event handlers and animation frames
Next ==
  \/ \E x \in GenRaw, y \in GenRaw : GenTerrain(x, y)
  \/ Randomize("alt")
  \/ \E n \in TemplateNames : ApplyTemplate(n, "alt")
  \/ \E b \in BOOLEAN : SetSculptOn(b)
  \/ \E m \in Modes : SetMode(m)
  \/ \E r \in Radii : SetRadius(r)
  \/ \E s \in AppSteps : SetStep(s)
  \/ \E k \in {"none", "sand"} : PainterSetActive(k)
  \/ \E c \in AppHits : PointerDown(c)
  \/ \E c \in AppHits : PointerMove(c)
  \/ \E w \in {"canvas", "outside"} : PointerUp(w)
  \/ Render

Spec == Init /\ [][Next]_vars

\* the texture painter driven through setActive and canvas taps, interleaved
\* with sculpting, random jitter and templates
PaintKeys == {"none", "sand", "dryground"}
PaintHits == {NoHit, Hit(-28, -28), Hit(4, -28), Hit(20, 20)}

NextPaint ==
  \/ \E k \in PaintKeys : PainterSetActive(k)
  \/ \E c \in PaintHits : PointerDown(c)
  \/ \E c \in PaintHits : PointerMove(c)
  \/ SetSculptOn(TRUE)
  \/ Randomize("alt")
  \/ ApplyTemplate("Perlin", "alt")

SpecPaint == Init /\ [][NextPaint]_vars

\* area painting as a pure function of its inputs
NextRegion == RegionQuery

SpecRegion == InitRegion /\ [][NextRegion]_vars

\* tile addressing as a pure function of its inputs
NextTile == TileQuery

SpecTile == InitTile /\ [][NextTile]_vars

\* tree scattering, one loop iteration per step; the random source yields
\* every tile again and again, and a loop whose condition fails exits
NextTrees ==
  \/ \E n \in TreeCounts : PopulateTrees(n)
  \/ \E i \in 0..(InitTiles - 1), j \in 0..(InitTiles - 1) : TreeDraw(i, j)
  \/ TreeLoopExit

SpecTrees ==
  /\ InitTrees
  /\ [][NextTrees]_vars
  /\ WF_vars(TreeLoopExit)
  /\ \A i \in 0..(InitTiles - 1), j \in 0..(InitTiles - 1) : WF_vars(TreeDraw(i, j))

\* the marker class driven directly, over a terrain whose heights change
NextMarker ==
  \/ \E i \in MarkerIndices, j \in MarkerIndices : MarkerConstruct(i, j)
  \/ \E i \in MarkerIndices, j \in MarkerIndices : MarkerPlace(i, j)
  \/ MarkerRefresh
  \/ Randomize("alt")

SpecMarker == Init /\ [][NextMarker]_vars

\* components constructed with collaborators passed or missing
NextConstruct ==
  \/ \E c \in Collaborators, i \in MarkerIndices, j \in MarkerIndices :
       MarkerConstructWith(c, i, j)
  \/ \E p \in BOOLEAN : CreatePaintableMaterial(p)

SpecConstruct == InitConstruct /\ [][NextConstruct]_vars

\* the samplers called on terrains shaped by jitter, a template and strokes
NextSample ==
  \/ \E w \in Samplers, x \in SampleXs, z \in SampleZs : SampleQuery(w, x, z)
  \/ Randomize("alt")
  \/ ApplyTemplate("Perlin", "alt")
  \/ Brush(0, 0, "raise", 1, StepSmall)
  \/ Brush(-28, -28, "lower", 2, StepSmall)

SpecSample == InitField /\ [][NextSample]_vars

\* the requested terrain size as a function of what the inputs hold
NextSize == SizeQuery

SpecSize == InitSize /\ [][NextSize]_vars

\* the paint system's start-up events in every order
NextAsset ==
  \/ InitPaintSystem
  \/ \E m \in LoadResults : LoadResolves(m)
  \/ CreatePaintableTerrainMaterial
  \/ OnBeforeCompile

SpecAsset == InitAsset /\ [][NextAsset]_vars

\* the three interaction switches and taps on the canvas
NextModes ==
  \/ \E b \in BOOLEAN : SetSculptOn(b)
  \/ \E k \in {"none", "sand"} : PainterSetActive(k)
  \/ NavLockSetPaused(~navPaused)
  \/ \E c \in AppHits : PointerDown(c)

SpecModes == Init /\ [][NextModes]_vars

\* terrains rebuilt, the painter re-attached, tiles painted; the painter is
\* either revision
InitAttach ==
  /\ \E pr \in PainterRevs : InitWith(MaxOps, pr)
  /\ tin = [x |-> 0, z |-> 0, tx |-> InitTiles, ty |-> InitTiles]
  /\ tout = NoTile

NextAttach ==
  \/ \E x \in GenRaw, y \in GenRaw : GenTerrain(x, y)
  \/ AttachToTerrain
  \/ PainterSetActive("sand")
  \/ \E c \in PaintHits : PointerDown(c)

SpecAttach == InitAttach /\ [][NextAttach]_vars

\* the bootstrap screen: preflight, the user's clicks and keys, the import
NextBoot ==
  \/ StepPasses
  \/ StepThrows
  \/ ClickContinue
  \/ \E k \in Keys : KeyDown(k)
  \/ ImportSucceeds
  \/ ImportFails
  \/ FadeTimer

SpecBoot == InitBoot /\ [][NextBoot]_vars

C2_AllInRange ==
  \A idx \in DOMAIN heights : MIN_H <= heights[idx] /\ heights[idx] <= MAX_H

\* C3: for every coordinate pair given to worldToTile, negative and very
\* large ones included, the result has 0 <= i < tilesX and 0 <= j < tilesY.
C3_TileInGrid ==
  tout # NoTile => /\ 0 <= tout.i /\ tout.i < tin.tx
                   /\ 0 <= tout.j /\ tout.j < tin.ty

\* a far negative x and a z beyond the last tile were both clamped
C3_Witness ==
  /\ tout # NoTile
  /\ tin.x = -BigCoord
  /\ tin.z = 48
  /\ tin.ty = 2
  /\ tout.i = 0
  /\ tout.j = tin.ty - 1

\* C4: no handler uses an index outside [0, number of stored entries) to
\* read or write the height array or the paint mask.
C4_NoOutOfBounds == ~last.oob

\* C5: a brush of world radius R at hit point C leaves every vertex whose
\* horizontal distance from C is at least R unchanged.
C5_Locality ==
  last.op = "brush" =>
    \A idx \in DOMAIN heights :
      FullD2(idx, WSeg, HSeg, PW, PH, last.hit.x, last.hit.z)
        >= (last.radius * TILE_SIZE) * (last.radius * TILE_SIZE)
      => heights[idx] = prev[idx]

\* C6: a pointer-up, on the canvas or outside it, ends the drag; while no
\* drag is active a pointer-move applies no brush and starts no drag, and a
\* drag starts again only with a pointer-down while sculpt mode is enabled.
C6_UpEndsDrag ==
  [][/\ (last'.op = "up" => ~dragging')
     /\ (~dragging /\ last'.op = "move"
           => ~last'.applied /\ heights' = heights /\ ~dragging')
     /\ (~dragging /\ dragging' => last'.op = "down" /\ ui.sculptOn)]_vars

\* after a stroke and a pointer-up, a pointer-move over the terrain with
\* sculpt mode still enabled applied nothing
C6_Witness ==
  /\ last.op = "move"
  /\ last.hit.on
  /\ ui.sculptOn
  /\ strokes > 0
  /\ ~dragging
  /\ ~last.applied
  /\ heights = prev

\* C7: the drag starts only on a pointer-down while sculpt mode is enabled;
\* the brush is applied only on that pointer-down or on a pointer-move while
\* dragging; a pointer-down while sculpt mode is disabled starts no drag and
\* changes no height.
C7_DragGuards ==
  [][/\ (~dragging /\ dragging' => last'.op = "down" /\ ui.sculptOn)
     /\ (last'.applied => \/ (last'.op = "down" /\ ui.sculptOn)
                          \/ (last'.op = "move" /\ dragging /\ ui.sculptOn))
     /\ (last'.op = "down" /\ ~ui.sculptOn
           => /\ dragging' = dragging
              /\ heights' = heights
              /\ ~last'.applied)]_vars

\* a pointer-down over the terrain with sculpt mode disabled did nothing
C7_Witness ==
  /\ last.op = "down"
  /\ last.hit.on
  /\ ~ui.sculptOn
  /\ ~dragging
  /\ ~last.applied
  /\ strokes = 0
  /\ heights = prev

\* C8: after a brush application the geometry is marked dirty, the normals
\* are those of the new heights, the marker is re-snapped and an existing
\* overlay is rebuilt from the new heights.
C8_DerivedFresh ==
  last.op = "brush" =>
    /\ (heights # prev => posDirty)
    /\ normalsOf = heights
    /\ ball.y = SnapToTile(rev, heights, tilesX, tilesY, ball.tileI, ball.tileJ)
    /\ overlay = BuildOverlay(rev, heights, tilesX, tilesY)

\* C9: after a brush or template mutation and the refresh that follows it,
\* the marker's Y is the terrain height sampled at the marker's x / z from
\* the current heights, plus hover.
C9_MarkerGlued ==
  last.op \in {"brush", "template"} =>
    ball.y = TerrainSample(rev, heights, tilesX, tilesY,
                           TileCenterX(ball.tileI, tilesX), TileCenterZ(ball.tileJ, tilesY))
             + MarkerHover(rev)

\* a brush changed the terrain under the marker and the marker moved with it
C9_Witness ==
  /\ last.op = "brush"
  /\ heights # prev
  /\ ball.y # MarkerHover(rev)
  /\ ball.y = TerrainSample(rev, heights, tilesX, tilesY,
                            TileCenterX(ball.tileI, tilesX), TileCenterZ(ball.tileJ, tilesY))
              + MarkerHover(rev)
  /\ ball.y # TerrainSample(rev, prev, tilesX, tilesY,
                            TileCenterX(ball.tileI, tilesX), TileCenterZ(ball.tileJ, tilesY))
              + MarkerHover(rev)

\* C10: after a terrain rebuild that changes the grid resolution the mask
\* the painter writes to has exactly one entry per vertex of the new field.
C10_MaskTracksField ==
  (/\ last.op = "gen"
   /\ HasPainter(rev)
   /\ DOMAIN prev # DOMAIN heights)
  => painter.maskLen = VertexCount(WSeg, HSeg)

C12_DiscExactly ==
  tout # NoTile =>
    tout.tiles = {t \in (0..(tin.tx - 1)) \X (0..(tin.ty - 1)) :
              (t[1] - tin.ci) * (t[1] - tin.ci) + (t[2] - tin.cj) * (t[2] - tin.cj)
                <= tin.r * tin.r}

\* C13: no brush stroke, template application or random jitter changes any
\* paint-mask value, whatever was painted before.
C13_PaintSurvivesHeights ==
  [][(\/ last'.op \in {"randomize", "template", "move"}
      \/ (last'.op = "down" /\ painter.activeKey = "none"))
       => painter' = painter]_vars

\* a tile was painted, then a brush stroke (a pointer-move while dragging)
\* changed heights and the painted tile is still painted
C13_Witness ==
  /\ last.op = "move"
  /\ last.applied
  /\ heights # prev
  /\ painter.painted["sand"] = PaintBlock(0, 0, tilesX)
  /\ \E idx \in PaintBlock(0, 0, tilesX) : heights[idx] # 0

\* C14: populateTrees(N) with 0 <= N <= tilesX * tilesY ends with exactly N
\* trees standing on N pairwise distinct tiles, and a running scatter always
\* ends, the full-capacity one included
C14_ScatterTerminates ==
  /\ [](tout.phase = "done" /\ tout.count \in 0..(tilesX * tilesY)
          => /\ Len(tout.trees) = tout.count
             /\ Cardinality({<<tout.trees[k].i, tout.trees[k].j>> :
                               k \in 1..Len(tout.trees)}) = tout.count
             /\ \A k \in 1..Len(tout.trees) :
                  /\ tout.trees[k].i \in 0..(tilesX - 1)
                  /\ tout.trees[k].j \in 0..(tilesY - 1))
  /\ (tout.phase = "running" ~> tout.phase = "done")

C14_Witness ==
  /\ tout.phase = "done"
  /\ tout.count = tilesX * tilesY
  /\ Len(tout.trees) = tilesX * tilesY

\* C15: the marker's stored tile indices always lie in the tile grid, after
\* construction with any initial indices and after any placeOnTile / refresh
C15_MarkerInBounds ==
  /\ ball.tileI \in 0..(tilesX - 1)
  /\ ball.tileJ \in 0..(tilesY - 1)

\* C16: however often the terrain is regenerated, the scene holds exactly one
\* marker, it is bound to the current terrain mesh, and the markers of the
\* earlier terrains have been disposed
C16_OneLiveMarker ==
  /\ Len(markers) = 1
  /\ markers[1]

C16_Witness ==
  /\ last.op = "gen"
  /\ ops >= 2
  /\ tilesX = MaxTiles
  /\ markers = <<TRUE>>

\* C17: a marker or paintable material constructed with a required
\* collaborator missing throws at once: no field has been stored and nothing
\* has been added to the scene when the error is raised
C17_FailFast ==
  /\ []((\/ tin.kind = "marker" /\ ~MarkerRequires(rev, tin.c)
         \/ tin.kind = "material" /\ ~tin.c.config) => tout.threw)
  /\ [](tout.threw => ~tout.stored /\ ~tout.added)
  /\ [][tout'.threw => markers' = markers /\ ball' = ball]_vars

C17_Witness ==
  /\ tin.kind = "marker"
  /\ ~tin.c.terrainMesh
  /\ tout.threw
  /\ markers = <<TRUE, TRUE>>

\* C18: a raise or lower stroke with step # 0 whose hit point lies on the
\* terrain changes the height of the vertex nearest the hit point
C18_CenterChanges ==
  (/\ last.op = "brush"
   /\ last.mode \in {"raise", "lower"}
   /\ last.step # 0
   /\ 2 * last.hit.x \in (-PW)..PW
   /\ 2 * last.hit.z \in (-PH)..PH)
  => heights[CenterVertex(rev, tilesX, tilesY, last.hit.x, last.hit.z)]
       # prev[CenterVertex(rev, tilesX, tilesY, last.hit.x, last.hit.z)]

\* C18 (amended): it does so when the radius is at least one tile and the
\* vertex is not already at the bound the stroke pushes it towards
C18_CenterChangesUnlessPinned ==
  (/\ last.op = "brush"
   /\ last.mode \in {"raise", "lower"}
   /\ last.step # 0
   /\ last.radius >= 1
   /\ 2 * last.hit.x \in (-PW)..PW
   /\ 2 * last.hit.z \in (-PH)..PH
   /\ IF (last.step > 0) = (last.mode = "raise")
      THEN prev[CenterVertex(rev, tilesX, tilesY, last.hit.x, last.hit.z)] < MAX_H
      ELSE prev[CenterVertex(rev, tilesX, tilesY, last.hit.x, last.hit.z)] > MIN_H)
  => heights[CenterVertex(rev, tilesX, tilesY, last.hit.x, last.hit.z)]
       # prev[CenterVertex(rev, tilesX, tilesY, last.hit.x, last.hit.z)]

C18_Witness ==
  /\ last.op = "brush"
  /\ last.mode = "lower"
  /\ last.step = StepSmall
  /\ last.radius = 1
  /\ last.hit = Hit(0, 0)
  /\ prev[CenterVertex(rev, tilesX, tilesY, 0, 0)] = MAX_H
  /\ heights[CenterVertex(rev, tilesX, tilesY, 0, 0)] = MAX_H - StepSmall

\* C19: a raise stroke with step s > 0 and a radius of at least one tile,
\* centred on the corner vertex of the tile it hits, adds exactly s to that
\* vertex as long as the result stays below MAX_H
C19_CornerRisesByStep ==
  (/\ last.op = "brush"
   /\ last.mode = "raise"
   /\ last.step > 0
   /\ last.radius >= 1
   /\ 2 * last.hit.x \in (-PW)..PW
   /\ 2 * last.hit.z \in (-PH)..PH
   /\ last.hit.x = TileCenterX(WorldToTile(last.hit.x, last.hit.z, tilesX, tilesY).i, tilesX)
                     - TILE_SIZE \div 2
   /\ last.hit.z = TileCenterZ(WorldToTile(last.hit.x, last.hit.z, tilesX, tilesY).j, tilesY)
                     - TILE_SIZE \div 2
   /\ prev[CenterVertex(rev, tilesX, tilesY, last.hit.x, last.hit.z)] + last.step < MAX_H)
  => heights[CenterVertex(rev, tilesX, tilesY, last.hit.x, last.hit.z)]
       = prev[CenterVertex(rev, tilesX, tilesY, last.hit.x, last.hit.z)] + last.step

\* C20: a smooth stroke on heights that are not all equal inside the brush
\* never raises their variance inside the brush, never takes it below zero,
\* and strictly lowers it as soon as one of those heights is far enough from
\* their mean for a tenth of the gap to show at the stored precision
\* (heights of at most SmallH in size, so that the sums stay exact)
C20_SmoothShrinksVariance ==
  LET S == SmoothArea(rev, prev, tilesX, tilesY, last.hit.x, last.hit.z, last.radius)
  IN  (/\ last.op = "brush"
       /\ last.mode = "smooth"
       /\ 2 * last.hit.x \in (-PW)..PW
       /\ 2 * last.hit.z \in (-PH)..PH
       /\ \A idx \in S : /\ prev[idx] \in (-SmallH)..SmallH
                          /\ heights[idx] \in (-SmallH)..SmallH
       /\ VarianceN2(prev, S) > 0)
      => /\ VarianceN2(heights, S) >= 0
         /\ VarianceN2(heights, S) <= VarianceN2(prev, S)
         /\ (\E idx \in S :
               \/ Cardinality(S) * prev[idx] - SumOver(prev, S) >= 5 * Cardinality(S)
               \/ SumOver(prev, S) - Cardinality(S) * prev[idx] >= 5 * Cardinality(S))
            => VarianceN2(heights, S) < VarianceN2(prev, S)

\* C21: a sampler called at the local coordinates of a vertex of the terrain
\* geometry, first and last row and column included, returns that vertex's
\* stored height
C21_ExactAtVertices ==
  (/\ last.op = "sample"
   /\ 2 * tin.x \in (-PW)..PW
   /\ 2 * tin.z \in (-PH)..PH
   /\ ((tin.x + PW \div 2) * WSeg) % PW = 0
   /\ ((tin.z + PH \div 2) * HSeg) % PH = 0)
  => tout.y = heights[(((tin.z + PH \div 2) * HSeg) \div PH) * (WSeg + 1)
                      + ((tin.x + PW \div 2) * WSeg) \div PW]

C21_Witness ==
  /\ last.op = "sample"
  /\ tin.x = PW \div 2
  /\ tin.z = -(PH \div 2)
  /\ heights[WSeg] # 0
  /\ heights[WSeg] # heights[WSeg - 1]
  /\ tout.y = heights[WSeg]

C22_NonDegenerate ==
  tout # NoTile =>
    /\ ~tout.nan
    /\ tout.width > 0
    /\ tout.height > 0
    /\ tout.widthSegments > 0
    /\ tout.heightSegments > 0

\* C23: one stroke of the full-scan brush and one stroke of the bounded-scan
\* brush, on the same heights with the same hit point, mode, radius and
\* step, leave the same heights
C23_ScansAgree ==
  (/\ last.op = "brush"
   /\ 2 * last.hit.x \in (-PW)..PW
   /\ 2 * last.hit.z \in (-PH)..PH)
  => /\ rev = "full" =>
          heights = SculptBounded(prev, WSeg, HSeg, PW, PH, last.hit.x, last.hit.z,
                                  last.mode, last.radius, last.step)
     /\ rev = "bounded" =>
          heights = SculptFull(prev, WSeg, HSeg, PW, PH, last.hit.x, last.hit.z,
                               last.mode, last.radius, last.step)

\* C24: whatever the order of the load resolving, the material being created
\* and its shader being compiled, once the load has resolved and the shader
\* is compiled every sampled map that loaded is the one the material reads,
\* not the neutral texture.
C24_RealAssetAfterLoadAndCompile ==
  (tout.resolved /\ tout.compiled)
    => \A k \in SampledKeys : tout.sandMaps[k] => tout.value[k] = "real"

\* C25: across terrain rebuilds and painter initialisations no asset is
\* requested more than once.
C25_OneLoadPerAsset == \A g \in AssetGroups : requests[g] <= 1

\* C26: whatever the sculpt toggle, the active paint texture and the nav
\* lock are, one pointerdown that hits the terrain triggers at most one of
\* the brush, the tile paint and the marker move.
C26_OneModePerTap ==
  [][(last'.op = "down" /\ last'.hit.on /\ ops' = ops + 1)
       => /\ ~(DownStartsDrag /\ PaintActive)
          /\ ~(DownStartsDrag /\ TapMoves)
          /\ ~(PaintActive /\ TapMoves)]_vars

\* C27: a pointerdown moves the marker only if the nav-lock toggle is not
\* paused and no paint texture is active, after any sequence of toggle
\* changes and setActive calls.
C27_TapMoveNeedsNoPause ==
  [][(last'.op = "down" /\ last'.hit.on /\ ops' = ops + 1 /\ TapMoves)
       => (~navPaused /\ painter.activeKey = "none")]_vars

\* C30: once attachToTerrain() has run after a rebuild, the mask attribute
\* the painter writes to is on the current terrain's geometry, has one entry
\* per vertex, and the current terrain's material carries the paint shader
\* hook.
C30_BoundAfterAttach ==
  (HasPainter(rev) /\ binding.attached)
    => /\ binding.maskCurrent
       /\ painter.maskLen = VertexCount(WSeg, HSeg)
       /\ binding.matHooked

====
